---- MODULE Spec2Model ----
(***************************************************************************)
(* Model of the school master-schedule optimiser.                          *)
(*                                                                         *)
(*  * program.py: a top-level script.  It loads five tables, runs early    *)
(*    feasibility checks, computes valid_sections, builds a PuLP model     *)
(*    (variables x, y, z and the constraints), checks feasibility, calls   *)
(*    the solver, handles the status, extracts the result tables, runs the *)
(*    conflict analysis and finally output_results.                        *)
(*  * Tune/penalty_tuning.py: PenaltyTuner.run_tuning, the outer loop over *)
(*    penalty combinations that keeps the best configuration on disk.      *)
(*                                                                         *)
(* The solver (CBC) is external: Solve picks any assignment that satisfies *)
(* every emitted constraint; status 1 additionally requires the objective  *)
(* to be within the configured ratio gap of the best one.                  *)
(***************************************************************************)
EXTENDS Integers, Sequences, FiniteSets, TLC

VARIABLES
    sections_info,            \* Sections_Information.csv, rows in file order
    teacher_info,             \* Teacher_Info.csv: the 'Teacher ID' column
    teacher_unavailability,   \* Teacher_unavailability.csv, rows in file order
    student_info,             \* Student_Info.csv, rows in file order
    student_preference_info,  \* Student_Preference_Info.csv, rows in file order
    pc,                       \* position of the script
    exit_code,                \* -1 while running, 0 at the end, 1 after sys.exit(1)
    valid_sections,           \* list of (section, period)
    x, y, z,                  \* dicts of LpVariable: key -> varValue
    period_conflicts,         \* diagnostic_vars['period_conflicts']: key -> varValue
    science_prep_violation,   \* diagnostic_vars['science_prep_violation']: key -> varValue
    constraints,              \* constraints added to prob
    solver_calls,             \* number of prob.solve() calls
    status,                   \* prob.status
    dataframes,               \* the four DataFrames of the first extraction
    files,                    \* the four CSV files in output/
    reports,                  \* number of analyze_conflicts() reports produced
    conflicts,                \* last value returned by analyze_conflicts()
    results,                  \* PenaltyTuner.results
    best_configuration,       \* files of results_dir/best_configuration
    tuning_summary,           \* results_dir/tuning_summary.json
    run_status,               \* solver outcome of each scheduler.run() so far
    tune_i,                   \* index of the next combination in run_tuning
    periods_df,               \* Verison1.0.py: Periods.csv, rows (Day, Period)
    courses_df,               \* Verison1.0.py: Courses.csv, rows in file order
    teachers_df,              \* Verison1.0.py: Teachers.csv, rows in file order
    t_p,                      \* Verison1.0.py: t_{teacher}_{day}_{period} -> varValue
    teacher_schedule_df,      \* Verison1.0.py: the rows of the printed teacher schedule
    section_period_domain,    \* cp.py: section -> set of periods
    section_period_vars,      \* cp.py: (section, period) -> solver.Value
    cp_status,                \* cp.py: status returned by solver.Solve
    process_log,              \* cp.py: the messages written to process.log
    soft_lhs,                 \* program OR-TOOLS.py: left-hand sides of the soft constraints
    diagnostic_vars,          \* program OR-TOOLS.py: values of the slack variables
    or_status,                \* program OR-TOOLS.py: status returned by solver.Solve
    workers,                  \* penalty_tuning.py: the evaluate_penalties calls in progress
    modified_data             \* schedule_optimizer.py: the tables modify_data returns

progVars == <<sections_info, teacher_info, teacher_unavailability, student_info,
              student_preference_info, pc, exit_code, valid_sections,
              x, y, z, period_conflicts, science_prep_violation, constraints,
              solver_calls, status,
              dataframes, files, reports, conflicts>>
tuneVars == <<results, best_configuration, tuning_summary, run_status, tune_i>>
firstVars == <<periods_df, courses_df, teachers_df, t_p, teacher_schedule_df>>
cpVars == <<section_period_domain, section_period_vars, cp_status, process_log>>
ortVars == <<soft_lhs, diagnostic_vars, or_status>>
restVars == <<cpVars, ortVars, workers, modified_data>>
vars == <<progVars, tuneVars, firstVars, restVars>>

(***************************************************************************)
(* Bounds of the model.                                                    *)
(***************************************************************************)
NumSections == 2       \* at most this many rows in sections_info
NumStudents == 1       \* at most this many rows in student_info
MaxSeats == 1          \* '# of Seats Available' ranges over 0..MaxSeats
MaxRequests == 2       \* at most this many courses in one preference list

(***************************************************************************)
(* Program constants.                                                      *)
(***************************************************************************)
periods == <<"R1", "R2", "R3", "R4", "G1", "G2", "G3", "G4">>
\* Variant of MedicalCareerPeriods: a wrong second period.
MedicalCareerWrongPin == <<"R1", "R2">>
MedicalCareerPeriods == <<"R1", "G1">>
HeroesTeachPeriods == <<"R2", "G2">>
PeriodConflictPenalty == 750
None == -1             \* varValue of a variable the solver has not set
NaN == <<"NaN">>       \* pandas missing value in 'Unavailable Periods'

(***************************************************************************)
(* Helpers on sequences, sets and functions.                               *)
(***************************************************************************)
Range(s) == {s[i] : i \in DOMAIN s}

EmptyFun == [k \in {} |-> 0]

RECURSIVE SumOver(_, _)
SumOver(f, keys) ==
    IF keys = {} THEN 0
    ELSE LET k == CHOOSE k \in keys : TRUE
         IN f[k] + SumOver(f, keys \ {k})

SumF(f) == SumOver(f, DOMAIN f)

RECURSIVE SumSeq(_)
SumSeq(s) == IF s = <<>> THEN 0 ELSE Head(s) + SumSeq(Tail(s))

RECURSIVE FlattenSeq(_)
FlattenSeq(ss) == IF ss = <<>> THEN <<>> ELSE Head(ss) \o FlattenSeq(Tail(ss))

RECURSIVE DepProd(_, _)
\* All functions g with domain keys and g[k] \in rows[k].
DepProd(keys, rows) ==
    IF keys = {} THEN {EmptyFun}
    ELSE LET k == CHOOSE k \in keys : TRUE
             rest == DepProd(keys \ {k}, rows)
         IN {[j \in keys |-> IF j = k THEN r ELSE g[j]] : g \in rest, r \in rows[k]}

Max(a, b) == IF a >= b THEN a ELSE b
Abs(a) == IF a >= 0 THEN a ELSE 0 - a

(***************************************************************************)
(* Input tables.  Init draws the five tables from these finite sets.       *)
(***************************************************************************)
SectionIDs == <<"S1", "S2", "S3", "S4">>
StudentIDs == <<"A", "B", "C">>
TeacherIDs == {"T1", "T2"}
SectionCourseIDs == {"Medical Career", "Heroes Teach", "Math", "Art"}
RequestCourseIDs == SectionCourseIDs    \* a requested course may have no section

SectionRows(i) ==
    {[SectionID |-> SectionIDs[i], CourseID |-> c, TeacherAssigned |-> t, Seats |-> n] :
        c \in SectionCourseIDs, t \in TeacherIDs, n \in 0..MaxSeats}

SectionTables ==
    UNION {{tab \in [1..n -> UNION {SectionRows(i) : i \in 1..n}] :
                \A i \in 1..n : tab[i].SectionID = SectionIDs[i]} : n \in 1..NumSections}

\* Teacher T2 may be missing from Teacher_Info.csv while sections name it.
TeacherTables == {<<"T1", "T2">>, <<"T1">>}

\* 'Unavailable Periods' after split(','): T1 is free in R1, R2, G1 and T2 in
\* R1, G1, G2; or both are free in R2 only; or T1 has a second row that lists R2.
FreeR1R2G1 == <<"R3", "R4", "G2", "G3", "G4">>
FreeR1G1G2 == <<"R2", "R3", "R4", "G3", "G4">>
FreeR2 == <<"R1", "R3", "R4", "G1", "G2", "G3", "G4">>
UnavailabilityRow(t, ps) == [TeacherID |-> t, UnavailablePeriods |-> ps]
UnavailabilityTables ==
    { <<UnavailabilityRow("T1", FreeR1R2G1), UnavailabilityRow("T2", FreeR1G1G2)>>,
      <<UnavailabilityRow("T1", FreeR2), UnavailabilityRow("T2", FreeR2)>>,
      <<UnavailabilityRow("T1", FreeR2), UnavailabilityRow("T1", <<"R2">>),
        UnavailabilityRow("T2", FreeR2)>> }

\* The i-th student is SPED when i is odd.
StudentTables ==
    {[i \in 1..n |-> [StudentID |-> StudentIDs[i], SPED |-> i % 2]] : n \in 1..NumStudents}

ScienceCourseIDs == {"Earth Science", "Life Science"}   \* Course IDs containing 'Science'

\* Alphabetical order of the Course IDs.
CourseRank == [c \in RequestCourseIDs \cup ScienceCourseIDs |->
                 CASE c = "Art" -> 1 [] c = "Earth Science" -> 2 [] c = "Heroes Teach" -> 3
                   [] c = "Life Science" -> 4 [] c = "Math" -> 5 [] c = "Medical Career" -> 6]

\* A preference list is the result of 'Preferred Sections'.split(';'):
\* distinct courses, listed in alphabetical order.
PreferenceLists ==
    UNION {{l \in [1..n -> RequestCourseIDs] :
                \A i, j \in 1..n : i < j => CourseRank[l[i]] < CourseRank[l[j]]} :
           n \in 1..MaxRequests}

PreferenceTables(students) ==
    {tab \in [1..Len(students) -> [StudentID : Range(StudentIDs), PreferredSections : PreferenceLists]] :
        \A i \in 1..Len(students) : tab[i].StudentID = students[i].StudentID}

(***************************************************************************)
(* Table look-ups (pandas selections).                                     *)
(***************************************************************************)
SectionIDList == [i \in DOMAIN sections_info |-> sections_info[i].SectionID]
StudentIDList == [i \in DOMAIN student_info |-> student_info[i].StudentID]

SectionRow(section_id) ==
    sections_info[CHOOSE i \in DOMAIN sections_info :
        /\ sections_info[i].SectionID = section_id
        /\ \A j \in DOMAIN sections_info : sections_info[j].SectionID = section_id => i <= j]

CourseOf(section_id) == SectionRow(section_id).CourseID
TeacherOf(section_id) == SectionRow(section_id).TeacherAssigned
SeatsOf(section_id) == SectionRow(section_id).Seats

\* student_preference_info[... == student_id]['Preferred Sections'].values[0].split(';')
requested_courses(student_id) ==
    student_preference_info[CHOOSE i \in DOMAIN student_preference_info :
        /\ student_preference_info[i].StudentID = student_id
        /\ \A j \in DOMAIN student_preference_info :
              student_preference_info[j].StudentID = student_id => i <= j].PreferredSections

\* course_to_sections: Course ID -> list of its Section IDs in file order
CoursesWithSections == {sections_info[i].CourseID : i \in DOMAIN sections_info}
course_to_sections ==
    [c \in CoursesWithSections |->
        LET keep(r) == r.CourseID = c
            rows == SelectSeq(sections_info, keep)
        IN [i \in DOMAIN rows |-> rows[i].SectionID]]

\* sections_info[sections_info['Course ID'] == course]['Section ID']
SectionsOfCourse(c) == IF c \in CoursesWithSections THEN course_to_sections[c] ELSE <<>>

\* sections_info[sections_info['Teacher Assigned'] == teacher]['Section ID']
teacher_sections(teacher) ==
    LET keep(r) == r.TeacherAssigned = teacher
        rows == SelectSeq(sections_info, keep)
    IN [i \in DOMAIN rows |-> rows[i].SectionID]

(***************************************************************************)
(* Early feasibility checks (program.py 171-205, called at 244-250).       *)
(***************************************************************************)
TeachersAssigned == {sections_info[i].TeacherAssigned : i \in DOMAIN sections_info}
CoursesOfTeacher(t) ==
    {sections_info[i].CourseID : i \in {j \in DOMAIN sections_info : sections_info[j].TeacherAssigned = t}}

analyze_teacher_conflicts ==
    ~ \E t \in TeachersAssigned :
        "Medical Career" \in CoursesOfTeacher(t) /\ "Heroes Teach" \in CoursesOfTeacher(t)

ScienceCourseNames == {"Chemistry", "Biology", "Physics", "AP Biology"}
analyze_science_conflicts ==
    ~ \E t \in TeachersAssigned :
        Cardinality({i \in DOMAIN sections_info :
            /\ sections_info[i].TeacherAssigned = t
            /\ sections_info[i].CourseID \in ScienceCourseNames}) > 4

(***************************************************************************)
(* Preprocessing (program.py 255-348).                                     *)
(***************************************************************************)
allowed_periods(course_id) ==
    IF course_id = "Medical Career" THEN MedicalCareerPeriods
    ELSE IF course_id = "Heroes Teach" THEN HeroesTeachPeriods
    ELSE periods

\* The 'Unavailable Periods' of the first row of the teacher, split at ','.
unavailable_periods(teacher_id) ==
    LET rows == {i \in DOMAIN teacher_unavailability :
                    teacher_unavailability[i].TeacherID = teacher_id}
    IN IF teacher_unavailability = <<>> \/ rows = {} THEN <<>>
       ELSE LET first == teacher_unavailability[CHOOSE i \in rows : \A j \in rows : i <= j]
            IN IF first.UnavailablePeriods # NaN THEN first.UnavailablePeriods ELSE <<>>

ComputeValidSections ==
    FlattenSeq([i \in DOMAIN sections_info |->
        LET section_id == sections_info[i].SectionID
            teacher_id == sections_info[i].TeacherAssigned
            course_id == CourseOf(section_id)
            free(p) == p \notin Range(unavailable_periods(teacher_id))
            kept == SelectSeq(allowed_periods(course_id), free)
        IN [j \in DOMAIN kept |-> <<section_id, kept[j]>>]])

ValidSectionSet == Range(valid_sections)
ValidPeriodSet(section_id) == {k[2] : k \in {v \in ValidSectionSet : v[1] = section_id}}

\* requested_sections (298-308): a set of Section IDs
requested_sections ==
    UNION {Range(course_to_sections[c]) :
        c \in {c \in UNION {Range(requested_courses(st)) : st \in Range(StudentIDList)} :
                 c \in CoursesWithSections}}

\* preprocess_valid_assignments (317-329): a set of (student, section)
valid_assignments ==
    UNION {{<<st, sec>> : sec \in UNION {Range(course_to_sections[c]) :
                c \in {c \in Range(requested_courses(st)) : c \in CoursesWithSections}}} :
           st \in Range(StudentIDList)}

(***************************************************************************)
(* Iteration order of a Python set: one fixed order for the whole process  *)
(* (the set is not modified between two iterations).                       *)
(***************************************************************************)
IndexIn(seq, e) == CHOOSE i \in DOMAIN seq : seq[i] = e

RECURSIVE SortedBy(_, _)
SortedBy(S, rank) ==
    IF S = {} THEN <<>>
    ELSE LET m == CHOOSE m \in S : \A o \in S : rank[m] <= rank[o]
         IN <<m>> \o SortedBy(S \ {m}, rank)

IterAssignments ==
    LET n == Len(SectionIDs) + 1
        rank == [k \in valid_assignments |->
                    n * IndexIn(StudentIDs, k[1]) + IndexIn(SectionIDs, k[2])]
    IN SortedBy(valid_assignments, rank)

IterCourses(S) == SortedBy(S, [c \in S |-> CourseRank[c]])

(***************************************************************************)
(* The PuLP model (program.py 350-566).  Each constraint family is a       *)
(* relation on the value of its left-hand side; Feasible collects the      *)
(* assignments that satisfy every constraint added to prob.                *)
(***************************************************************************)
Students == Range(StudentIDList)
XKeys == valid_assignments
YKeys == UNION {{<<k[1], k[2], p>> : p \in ValidPeriodSet(k[2])} : k \in XKeys}
ZKeys == ValidSectionSet
ConflictKeys == Students \X Range(periods)

\* 383: lpSum(y[(student, section, p)] for p in valid_periods) == x[(student, section)]
LinkConstraint(ysum, xval) == ysum = xval
\* Variant of ScheduledConstraint: y is not tied to z.
ScheduledUnconstrained(yval, zval) == yval <= 1
\* 389: y[(student, section, p)] <= z[(section, p)]
ScheduledConstraint(yval, zval) == yval <= zval
\* 398-402: lpSum(y[(student, section, period)] ...) <= 1 + conflict
StudentPeriodConstraint(lhs, conflict) == lhs <= 1 + conflict
\* Variant of SectionPeriodConstraint: "at most one period".
SectionPeriodAtMostOne(lhs) == lhs <= 1
\* 407-408: lpSum(z[(section, period)] ...) == 1
SectionPeriodConstraint(lhs) == lhs = 1
\* 412-413: x[(student, section)] <= lpSum(z[(section, period)] ...)
AssignedScheduledConstraint(xval, zsum) == xval <= zsum
\* Variant of RequestedCourseConstraint: "at most one section".
RequestedCourseAtMostOne(lhs) == lhs <= 1
\* 426-428: lpSum(x[(student, section)] for section in course_sections ...) == 1
RequestedCourseConstraint(lhs) == lhs = 1
\* 450, 456: lpSum(z[(section, p)] for p in pin if (section, p) in valid_sections) >= 1
SpecialCourseConstraint(lhs) == lhs >= 1
\* Variant of CoverageConstraint: a pin period may stay without a section.
CoverageNotRequired(lhs) == lhs >= 0
\* 472-474, 480-482: lpSum(z[(section, 'R1')] for section in medical_career_sections ...) >= 1
CoverageConstraint(lhs) == lhs >= 1
\* 533-537: lpSum(z[(section, period)] for section in teacher_sections ...) <= 1
TeacherPeriodConstraint(lhs) == lhs <= 1

\* The teachers the constraint of 530-537 ranges over.
ConstrainedTeachers == Range(teacher_info)

PinnedCourses == <<"Medical Career", "Heroes Teach">>
PinOf(course_id) ==
    IF course_id = "Medical Career" THEN MedicalCareerPeriods ELSE HeroesTeachPeriods

\* Sum of f over the keys of K that f has.
SumKeys(f, K) == SumOver(f, K \cap DOMAIN f)

SectionsSet == Range(SectionIDList)

ZConstraints(zz) ==
    /\ \A sec \in SectionsSet :
          SectionPeriodConstraint(SumKeys(zz, {<<sec, p>> : p \in ValidPeriodSet(sec)}))
    /\ \A i \in DOMAIN PinnedCourses :
          LET c == PinnedCourses[i]
              secs == Range(SectionsOfCourse(c))
          IN /\ \A sec \in secs :
                   SpecialCourseConstraint(SumKeys(zz, {<<sec, p>> : p \in Range(PinOf(c))}))
             /\ secs # {} =>
                   \A p \in Range(PinOf(c)) :
                       CoverageConstraint(SumKeys(zz, {<<sec, p>> : sec \in secs}))
    /\ \A t \in ConstrainedTeachers : \A p \in Range(periods) :
          TeacherPeriodConstraint(SumKeys(zz, {<<sec, p>> : sec \in Range(teacher_sections(t))}))

XConstraints(xx, zz) ==
    /\ \A k \in XKeys :
          AssignedScheduledConstraint(xx[k],
              SumKeys(zz, {<<k[2], p>> : p \in ValidPeriodSet(k[2])}))
    /\ \A st \in Students : \A c \in Range(requested_courses(st)) :
          c \in CoursesWithSections =>
              RequestedCourseConstraint(
                  SumKeys(xx, {<<st, sec>> : sec \in Range(course_to_sections[c])}))

YConstraints(yy, xx, zz) ==
    /\ \A k \in XKeys :
          LinkConstraint(SumKeys(yy, {<<k[1], k[2], p>> : p \in ValidPeriodSet(k[2])}), xx[k])
    /\ \A k \in YKeys : ScheduledConstraint(yy[k], zz[<<k[2], k[3]>>])

\* Left-hand side of the constraint of 398-402 for one (student, period).
StudentPeriodLoad(yy, st, p) ==
    SumKeys(yy, {<<st, sec, p>> : sec \in {sec \in requested_sections :
                    <<st, sec>> \in valid_assignments /\ <<sec, p>> \in ValidSectionSet}})

ConflictConstraints(cc, yy) ==
    \A k \in ConflictKeys : StudentPeriodConstraint(StudentPeriodLoad(yy, k[1], k[2]), cc[k])

\* conflict is continuous with lower bound 0 and objective coefficient -750:
\* for fixed binaries the solver returns the least value the constraint allows.
\* 513-526: the keys of diagnostic_vars['science_prep_violation']: sections of two
\* different 'Science' courses (course1 < course2) and the pairs of
\* zip(periods[:-1], periods[1:]) except (R2, R3) and (G2, G3), with both z variables
SciencePrepKeys ==
    LET science_sections == {sec \in SectionsSet : CourseOf(sec) \in ScienceCourseIDs}
    IN
    {k \in science_sections \X science_sections \X Range(periods) \X Range(periods) :
        /\ CourseRank[CourseOf(k[1])] < CourseRank[CourseOf(k[2])]
        /\ \E i \in 1..(Len(periods) - 1) : k[3] = periods[i] /\ k[4] = periods[i + 1]
        /\ ~(k[3] \in {"R2", "G2"} /\ k[4] \in {"R3", "G3"})
        /\ <<k[1], k[3]>> \in ZKeys /\ <<k[2], k[4]>> \in ZKeys}

\* 525: z[(section_id1, period1)] + z[(section_id2, period2)] <= 1 + violation
LeastSciencePrep(zz) ==
    [k \in SciencePrepKeys |-> Max(0, zz[<<k[1], k[3]>>] + zz[<<k[2], k[4]>>] - 1)]

LeastConflict(yy) ==
    [k \in ConflictKeys |->
        CHOOSE v \in 0..Cardinality(SectionsSet) :
            /\ StudentPeriodConstraint(StudentPeriodLoad(yy, k[1], k[2]), v)
            /\ \A w \in 0..(v - 1) : ~StudentPeriodConstraint(StudentPeriodLoad(yy, k[1], k[2]), w)]

(***************************************************************************)
(* The assignments the solver can return.  The sets below are              *)
(*   {zz \in [ZKeys -> 0..1] : ZConstraints(zz)}, and likewise for x and   *)
(* y, enumerated one section (one student-section pair) at a time.         *)
(***************************************************************************)
SectionsWithPeriods == {k[1] : k \in ZKeys}

ZRows ==
    [sec \in SectionsWithPeriods |->
        {f \in [ValidPeriodSet(sec) -> 0..1] : SectionPeriodConstraint(SumF(f))}]

ZSolutions ==
    {zz \in {[k \in ZKeys |-> g[k[1]][k[2]]] : g \in DepProd(SectionsWithPeriods, ZRows)} :
        ZConstraints(zz)}

XSolutions(zz) == {xx \in [XKeys -> 0..1] : XConstraints(xx, zz)}

YRows(xx, zz) ==
    [k \in XKeys |->
        {f \in [ValidPeriodSet(k[2]) -> 0..1] :
            /\ LinkConstraint(SumF(f), xx[k])
            /\ \A p \in DOMAIN f : ScheduledConstraint(f[p], zz[<<k[2], p>>])}]

YSolutions(xx, zz) ==
    {yy \in {[k \in YKeys |-> g[<<k[1], k[2]>>][k[3]]] : g \in DepProd(XKeys, YRows(xx, zz))} :
        YConstraints(yy, xx, zz)}

Feasible ==
    UNION {UNION {{[z |-> zz, x |-> xx, y |-> yy, period_conflicts |-> LeastConflict(yy),
                    science_prep_violation |-> LeastSciencePrep(zz)] :
                        yy \in YSolutions(xx, zz)} :
                  xx \in XSolutions(zz)} :
           zz \in ZSolutions}

(***************************************************************************)
(* Objective (375-376, 403, 501, 549, 563).  Slack variables take their    *)
(* least feasible value.                                                   *)
(***************************************************************************)
SportsMedPenalty == 600
SciencePrepPenalty == 400
SpedPenalty == 250
SpedCap == 12
balance_weight == 1

SectionLoad(xx, sec) == SumKeys(xx, {<<st, sec>> : st \in Students})

SportsMedOverlap(zz, p) ==
    Max(0, SumKeys(zz, {<<sec, p>> : sec \in Range(SectionsOfCourse("Sports Med"))}) - 1)

sped_students == {student_info[i].StudentID : i \in {j \in DOMAIN student_info : student_info[j].SPED = 1}}
SpedOverload(xx, sec) == Max(0, SumKeys(xx, {<<st, sec>> : st \in sped_students}) - SpedCap)

LoadSpread(xx, c) ==
    LET secs == Range(course_to_sections[c])
        hi == CHOOSE v \in {SectionLoad(xx, sec) : sec \in secs} :
                  \A sec \in secs : v >= SectionLoad(xx, sec)
        lo == CHOOSE v \in {SectionLoad(xx, sec) : sec \in secs} :
                  \A sec \in secs : v <= SectionLoad(xx, sec)
    IN hi - lo

ObjectiveValue(sol) ==
    SumF(sol.x)
    - PeriodConflictPenalty * SumF(sol.period_conflicts)
    - SciencePrepPenalty * SumF(sol.science_prep_violation)
    - SportsMedPenalty * SumF([p \in Range(periods) |-> SportsMedOverlap(sol.z, p)])
    - SpedPenalty * SumF([sec \in SectionsSet |-> SpedOverload(sol.x, sec)])
    - balance_weight * SumF([c \in {c \in CoursesWithSections : Len(course_to_sections[c]) > 1} |->
                                LoadSpread(sol.x, c)])

\* 'ratioGap 0.01' (622): the solver may stop with status Optimal at any
\* solution whose objective is within 1% of the best one.
BestObjective(sols) ==
    LET values == {ObjectiveValue(sol) : sol \in sols}
    IN CHOOSE v \in values : \A w \in values : v >= w

WithinGap(sol, best) == 100 * (best - ObjectiveValue(sol)) <= Abs(best)

(***************************************************************************)
(* check_feasibility, the two versions the script calls.                   *)
(***************************************************************************)
\* Variant of check_feasibility: the check reports nothing.
check_feasibility_skipped == {}
\* 583-593: only period availability
check_feasibility ==
    {sec \in SectionsSet : Cardinality({i \in DOMAIN valid_sections : valid_sections[i][1] = sec}) = 0}

total_requests(c) == Cardinality({st \in Students : c \in Range(requested_courses(st))})
total_capacity(c) == SumSeq([i \in DOMAIN course_to_sections[c] |-> SeatsOf(course_to_sections[c][i])])

\* 1085-1110: period availability and course capacity
check_feasibility_final ==
    [no_periods |-> check_feasibility,
     no_seats |-> {c \in CoursesWithSections : total_requests(c) > total_capacity(c)}]

(***************************************************************************)
(* Result tables.                                                          *)
(***************************************************************************)
Join(sep, seq) ==
    IF seq = <<>> THEN <<>>
    ELSE <<seq[1]>> \o FlattenSeq([i \in 1..(Len(seq) - 1) |-> <<sep, seq[i + 1]>>])

ScheduledPairs == LET on(k) == z[k] = 1 IN SelectSeq(valid_sections, on)
AssignedPairs == LET on(k) == x[k] = 1 IN SelectSeq(IterAssignments, on)

assigned_courses(student_id) ==
    {CourseOf(sec) : sec \in {sec \in requested_sections :
        /\ <<student_id, sec>> \in valid_assignments
        /\ x[<<student_id, sec>>] = 1}}

\* Variant: only the requested courses that have sections can be unmet.
unmet_courses_with_sections(student_id) ==
    (Range(requested_courses(student_id)) \cap CoursesWithSections) \ assigned_courses(student_id)

unmet_courses(student_id) == Range(requested_courses(student_id)) \ assigned_courses(student_id)

\* Variant: every student gets a row, also with an empty list.
AllStudentsListed == StudentIDList

StudentsWithUnmet == LET some(st) == unmet_courses(st) # {} IN SelectSeq(StudentIDList, some)

\* 822-897: the tables of the top-level extraction
section_scheduling ==
    [i \in DOMAIN ScheduledPairs |->
        [SectionID |-> ScheduledPairs[i][1], Period |-> ScheduledPairs[i][2]]]

student_assignments ==
    [i \in DOMAIN AssignedPairs |->
        [StudentID |-> AssignedPairs[i][1], SectionID |-> AssignedPairs[i][2]]]

teacher_assignments ==
    [i \in DOMAIN ScheduledPairs |->
        [TeacherID |-> TeacherOf(ScheduledPairs[i][1]),
         SectionID |-> ScheduledPairs[i][1], Period |-> ScheduledPairs[i][2]]]

students_unmet_requests ==
    [i \in DOMAIN StudentsWithUnmet |->
        [StudentID |-> StudentsWithUnmet[i],
         UnmetRequests |-> Join(",", IterCourses(unmet_courses(StudentsWithUnmet[i])))]]

\* 1159-1242: the tables of output_results
schedule_data ==
    [i \in DOMAIN ScheduledPairs |->
        [SectionID |-> ScheduledPairs[i][1], Period |-> ScheduledPairs[i][2],
         TeacherID |-> TeacherOf(ScheduledPairs[i][1]),
         CourseID |-> CourseOf(ScheduledPairs[i][1])]]

assignments_data ==
    [i \in DOMAIN AssignedPairs |->
        [StudentID |-> AssignedPairs[i][1], SectionID |-> AssignedPairs[i][2]]]

unmet_requests ==
    [i \in DOMAIN StudentsWithUnmet |->
        [StudentID |-> StudentsWithUnmet[i],
         UnmetRequests |-> Join(";", IterCourses(unmet_courses(StudentsWithUnmet[i])))]]

teacher_schedule ==
    [i \in DOMAIN ScheduledPairs |->
        [TeacherID |-> TeacherOf(ScheduledPairs[i][1]),
         SectionID |-> ScheduledPairs[i][1], Period |-> ScheduledPairs[i][2],
         CourseID |-> CourseOf(ScheduledPairs[i][1])]]

NoTables == [Master_Schedule |-> <<>>, Student_Assignments |-> <<>>,
             Teacher_Assignments |-> <<>>, Students_Unmet_Requests |-> <<>>]

(***************************************************************************)
(* analyze_conflicts (680-815).                                            *)
(***************************************************************************)
enrollment(sec) == SumKeys(x, {<<st, sec>> : st \in Students})

\* 711, 727: utilization = enrollment / capacity if capacity > 0 else inf; utilization > 1
Overloaded(sec) == IF SeatsOf(sec) > 0 THEN enrollment(sec) > SeatsOf(sec) ELSE TRUE

\* Courses in the order course_loads gets its keys: first section of each course.
RECURSIVE Dedup(_)
Dedup(seq) ==
    IF seq = <<>> THEN <<>>
    ELSE LET rest == Dedup(SubSeq(seq, 1, Len(seq) - 1))
             last == seq[Len(seq)]
         IN IF last \in Range(rest) THEN rest ELSE Append(rest, last)

CourseOrder == Dedup([i \in DOMAIN sections_info |-> CourseOf(sections_info[i].SectionID)])

course_loads ==
    FlattenSeq([i \in DOMAIN CourseOrder |->
        LET over(sec) == Overloaded(sec)
            secs == SelectSeq(LET of(sec) == CourseOf(sec) = CourseOrder[i]
                              IN SelectSeq(SectionIDList, of), over)
        IN [j \in DOMAIN secs |->
              [section |-> secs[j], course |-> CourseOrder[i], capacity |-> SeatsOf(secs[j]),
               enrollment |-> enrollment(secs[j]),
               overload |-> enrollment(secs[j]) - SeatsOf(secs[j])]]])

special_course_issues ==
    LET bad(p) == SportsMedOverlap(z, p) > 0
        ps == SelectSeq(periods, bad)
    IN [i \in DOMAIN ps |-> [type |-> "Sports Med", period |-> ps[i]]]

teacher_conflicts ==
    FlattenSeq([i \in DOMAIN teacher_info |->
        LET scheduled(p) == SumKeys(z, {<<sec, p>> : sec \in Range(teacher_sections(teacher_info[i]))})
            bad(p) == scheduled(p) > 1
            ps == SelectSeq(periods, bad)
        IN [j \in DOMAIN ps |->
              [teacher |-> teacher_info[i], period |-> ps[j], conflict_count |-> scheduled(ps[j])]]])

analyze_conflicts ==
    [course_loads |-> course_loads, special_course_issues |-> special_course_issues,
     teacher_conflicts |-> teacher_conflicts]

\* 367, 486: diagnostic_vars['section_overload'] = {} is never filled
section_overload == EmptyFun

NoConflicts == [course_loads |-> <<>>, special_course_issues |-> <<>>, teacher_conflicts |-> <<>>]

(***************************************************************************)
(* program.py as a state machine: one action per stage of the script.      *)
(***************************************************************************)
CpIdle ==
    /\ section_period_domain = EmptyFun
    /\ section_period_vars = EmptyFun
    /\ cp_status = "UNKNOWN"
    /\ process_log = {}

OrToolsIdle ==
    /\ soft_lhs = EmptyFun
    /\ diagnostic_vars = EmptyFun
    /\ or_status = "UNKNOWN"

RestIdle ==
    /\ CpIdle
    /\ OrToolsIdle
    /\ workers = EmptyFun
    /\ modified_data = EmptyFun

TunerIdle ==
    /\ results = <<>>
    /\ best_configuration = <<>>
    /\ tuning_summary = <<>>
    /\ run_status = <<>>
    /\ tune_i = 0

Init ==
    /\ sections_info \in SectionTables
    /\ teacher_info \in TeacherTables
    /\ teacher_unavailability \in UnavailabilityTables
    /\ student_info \in StudentTables
    /\ student_preference_info \in PreferenceTables(student_info)
    /\ pc = "early_checks"
    /\ exit_code = -1
    /\ valid_sections = <<>>
    /\ x = EmptyFun /\ y = EmptyFun /\ z = EmptyFun
    /\ period_conflicts = EmptyFun
    /\ science_prep_violation = EmptyFun
    /\ constraints = 0
    /\ solver_calls = 0
    /\ status = 0
    /\ dataframes = NoTables
    /\ files = NoTables
    /\ reports = 0
    /\ conflicts = NoConflicts
    /\ TunerIdle
    /\ periods_df = {} /\ courses_df = <<>> /\ teachers_df = <<>>
    /\ t_p = EmptyFun /\ teacher_schedule_df = {}
    /\ RestIdle

inputVars == <<sections_info, teacher_info, teacher_unavailability, student_info,
               student_preference_info>>
modelVars == <<x, y, z, period_conflicts, science_prep_violation, constraints>>
outputVars == <<dataframes, files, reports, conflicts>>

Exit == pc' = "exit" /\ exit_code' = 1

\* 244-250
EarlyChecks ==
    /\ pc = "early_checks"
    /\ IF analyze_teacher_conflicts /\ analyze_science_conflicts
       THEN pc' = "preprocess" /\ UNCHANGED exit_code
       ELSE Exit
    /\ UNCHANGED <<inputVars, valid_sections, modelVars, solver_calls, status, outputVars, tuneVars>>
    /\ UNCHANGED <<firstVars, restVars>>

\* 255-348
Preprocess ==
    /\ pc = "preprocess"
    /\ valid_sections' = ComputeValidSections
    /\ pc' = "build_model"
    /\ UNCHANGED <<inputVars, exit_code, modelVars, solver_calls, status, outputVars, tuneVars>>
    /\ UNCHANGED <<firstVars, restVars>>

\* len(prob.constraints) after 380-563
NumConstraints ==
    Cardinality(XKeys) + Cardinality(YKeys) + Cardinality(ConflictKeys)
    + Len(sections_info) + Cardinality(XKeys)
    + SumSeq([i \in DOMAIN student_info |->
          Len(LET has(c) == c \in CoursesWithSections
              IN SelectSeq(requested_courses(student_info[i].StudentID), has))])
    + SumSeq([i \in DOMAIN PinnedCourses |->
          LET n == Len(SectionsOfCourse(PinnedCourses[i]))
          IN IF n = 0 THEN 0 ELSE n + Len(PinOf(PinnedCourses[i]))])
    + Len(periods)
    + Len(teacher_info) * Len(periods)
    + Len(sections_info)
    + SumF([c \in {c \in CoursesWithSections : Len(course_to_sections[c]) > 1} |->
               2 * Len(course_to_sections[c])])

\* 350-566: variables, constraints and objective
BuildModel ==
    /\ pc = "build_model"
    /\ x' = [k \in XKeys |-> None]
    /\ y' = [k \in YKeys |-> None]
    /\ z' = [k \in ZKeys |-> None]
    /\ period_conflicts' = [k \in ConflictKeys |-> None]
    /\ science_prep_violation' = [k \in SciencePrepKeys |-> None]
    /\ constraints' = NumConstraints + Cardinality(SciencePrepKeys)
    /\ pc' = "check_feasibility"
    /\ UNCHANGED <<inputVars, exit_code, valid_sections, solver_calls, status, outputVars, tuneVars>>
    /\ UNCHANGED <<firstVars, restVars>>

\* 595-603
CheckFeasibility ==
    /\ pc = "check_feasibility"
    /\ IF check_feasibility # {}
       THEN Exit
       ELSE pc' = "solve" /\ UNCHANGED exit_code
    /\ UNCHANGED <<inputVars, valid_sections, modelVars, solver_calls, status, outputVars, tuneVars>>
    /\ UNCHANGED <<firstVars, restVars>>

\* 629: the solver proves optimality (1) or stops at the time limit with an
\* incumbent (0)
SolveWithSolution ==
    /\ pc = "solve"
    /\ LET sols == Feasible
           best == BestObjective(sols)
       IN \E sol \in sols : \E st \in {0, 1} :
             /\ st = 1 => WithinGap(sol, best)
             /\ status' = st
             /\ x' = sol.x /\ y' = sol.y /\ z' = sol.z
             /\ period_conflicts' = sol.period_conflicts
             /\ science_prep_violation' = sol.science_prep_violation
    /\ solver_calls' = solver_calls + 1
    /\ pc' = "status"
    /\ UNCHANGED <<inputVars, exit_code, valid_sections, constraints, outputVars, tuneVars>>
    /\ UNCHANGED <<firstVars, restVars>>

\* 629: the solver proves infeasibility (-1) or stops at the time limit
\* without a solution (0); the variables keep varValue None
SolveWithoutSolution ==
    /\ pc = "solve"
    /\ \E st \in {-1, 0} :
          /\ st = -1 => Feasible = {}
          /\ status' = st
    /\ solver_calls' = solver_calls + 1
    /\ pc' = "status"
    /\ UNCHANGED <<inputVars, exit_code, valid_sections, modelVars, outputVars, tuneVars>>
    /\ UNCHANGED <<firstVars, restVars>>

\* prob.objective.value() is None when a variable of the objective has no value
ObjectiveIsNone ==
    \/ \E k \in DOMAIN x : x[k] = None
    \/ \E k \in DOMAIN period_conflicts : period_conflicts[k] = None

\* 636-657
StatusHandling ==
    /\ pc = "status"
    /\ IF status = 1 \/ (status = 0 /\ ~ObjectiveIsNone)
       THEN pc' = "extract" /\ UNCHANGED exit_code
       ELSE Exit
    /\ UNCHANGED <<inputVars, valid_sections, modelVars, solver_calls, status, outputVars, tuneVars>>
    /\ UNCHANGED <<firstVars, restVars>>

\* 817-897
ExtractResults ==
    /\ pc = "extract"
    /\ dataframes' = [Master_Schedule |-> section_scheduling,
                      Student_Assignments |-> student_assignments,
                      Teacher_Assignments |-> teacher_assignments,
                      Students_Unmet_Requests |-> students_unmet_requests]
    /\ files' = dataframes'
    /\ pc' = "analyze"
    /\ UNCHANGED <<inputVars, exit_code, valid_sections, modelVars, solver_calls, status,
                   reports, conflicts, tuneVars>>
    /\ UNCHANGED <<firstVars, restVars>>

\* 900
RunConflictAnalysis ==
    /\ pc = "analyze"
    /\ conflicts' = analyze_conflicts
    /\ reports' = reports + 1
    /\ pc' = "final_check"
    /\ UNCHANGED <<inputVars, exit_code, valid_sections, modelVars, solver_calls, status,
                   dataframes, files, tuneVars>>
    /\ UNCHANGED <<firstVars, restVars>>

\* 1070-1082, 1118-1129, 1144-1152
FinalFeasibilityCheck ==
    /\ pc = "final_check"
    /\ IF /\ analyze_teacher_conflicts /\ analyze_science_conflicts
          /\ check_feasibility_final.no_periods = {}
          /\ check_feasibility_final.no_seats = {}
       THEN pc' = "post_solution" /\ UNCHANGED exit_code
       ELSE Exit
    /\ UNCHANGED <<inputVars, valid_sections, modelVars, solver_calls, status, outputVars, tuneVars>>
    /\ UNCHANGED <<firstVars, restVars>>

\* 1244-1251
PostSolution ==
    /\ pc = "post_solution"
    /\ IF status = 1
       THEN /\ conflicts' = analyze_conflicts
            /\ reports' = reports + 1
            /\ files' = [Master_Schedule |-> schedule_data,
                         Student_Assignments |-> assignments_data,
                         Teacher_Assignments |-> teacher_schedule,
                         Students_Unmet_Requests |-> unmet_requests]
       ELSE UNCHANGED <<conflicts, reports, files>>
    /\ pc' = "done"
    /\ exit_code' = 0
    /\ UNCHANGED <<inputVars, valid_sections, modelVars, solver_calls, status, dataframes, tuneVars>>
    /\ UNCHANGED <<firstVars, restVars>>

Next ==
    \/ EarlyChecks
    \/ Preprocess
    \/ BuildModel
    \/ CheckFeasibility
    \/ SolveWithSolution
    \/ SolveWithoutSolution
    \/ StatusHandling
    \/ ExtractResults
    \/ RunConflictAnalysis
    \/ FinalFeasibilityCheck
    \/ PostSolution

Spec == Init /\ [][Next]_vars

\* The same script on tables with two sections of 'Science' courses; T1 is free in
\* R1, R2, G1 and T2 in R1, G1, G2, or T1 is free in R2, R4 and T2 in R3, G1.
ScienceInit ==
    /\ sections_info \in
          {tab \in [1..2 -> [SectionID : Range(SectionIDs), CourseID : ScienceCourseIDs,
                              TeacherAssigned : TeacherIDs, Seats : {MaxSeats}]] :
              \A i \in 1..2 : tab[i].SectionID = SectionIDs[i]}
    /\ teacher_info = <<"T1", "T2">>
    /\ teacher_unavailability \in
          {<<UnavailabilityRow("T1", FreeR1R2G1), UnavailabilityRow("T2", FreeR1G1G2)>>,
           <<UnavailabilityRow("T1", <<"R1", "R3", "G1", "G2", "G3", "G4">>),
             UnavailabilityRow("T2", <<"R1", "R2", "R4", "G2", "G3", "G4">>)>>}
    /\ student_info = <<[StudentID |-> StudentIDs[1], SPED |-> 1]>>
    /\ student_preference_info \in
          {<<[StudentID |-> StudentIDs[1], PreferredSections |-> l]>> :
              l \in {<<"Earth Science">>, <<"Earth Science", "Life Science">>}}
    /\ pc = "early_checks"
    /\ exit_code = -1
    /\ valid_sections = <<>>
    /\ x = EmptyFun /\ y = EmptyFun /\ z = EmptyFun
    /\ period_conflicts = EmptyFun
    /\ science_prep_violation = EmptyFun
    /\ constraints = 0
    /\ solver_calls = 0
    /\ status = 0
    /\ dataframes = NoTables
    /\ files = NoTables
    /\ reports = 0
    /\ conflicts = NoConflicts
    /\ TunerIdle
    /\ periods_df = {} /\ courses_df = <<>> /\ teachers_df = <<>>
    /\ t_p = EmptyFun /\ teacher_schedule_df = {}
    /\ RestIdle

ScienceSpec == ScienceInit /\ [][Next]_vars

(***************************************************************************)
(* Tune/penalty_tuning.py: PenaltyTuner.                                   *)
(***************************************************************************)
NumValues == 2         \* values kept of each penalty range

\* penalty_ranges (17-26), the first two penalties
penalty_ranges ==
    << <<"missing_course", <<1000, 1200, 1500, 2000>> >>,
       <<"section_overload", <<50, 100, 150>> >> >>

keys == [i \in DOMAIN penalty_ranges |-> penalty_ranges[i][1]]
values ==
    [i \in DOMAIN penalty_ranges |->
        SubSeq(penalty_ranges[i][2], 1,
               IF Len(penalty_ranges[i][2]) < NumValues THEN Len(penalty_ranges[i][2]) ELSE NumValues)]

\* Variant of product: the first range varies fastest.
RECURSIVE product_first_fastest(_)
product_first_fastest(ranges) ==
    IF ranges = <<>> THEN << <<>> >>
    ELSE LET rest == product_first_fastest(Tail(ranges))
         IN FlattenSeq([j \in DOMAIN rest |->
                [i \in DOMAIN Head(ranges) |-> <<Head(ranges)[i]>> \o rest[j]]])

\* itertools.product(*values): the last range varies fastest
RECURSIVE product(_)
product(ranges) ==
    IF ranges = <<>> THEN << <<>> >>
    ELSE LET rest == product(Tail(ranges))
         IN FlattenSeq([i \in DOMAIN Head(ranges) |->
                [j \in DOMAIN rest |-> <<Head(ranges)[i]>> \o rest[j]]])

combinations == product(values)

\* dict(zip(keys, vals))
PenaltiesOf(vals) == [k \in Range(keys) |-> vals[IndexIn(keys, k)]]

\* What scheduler.run() can return: the number of entries of each conflict list.
ConflictCounts(m, t, sp, o) ==
    [missing_courses |-> m, teacher_conflicts |-> t, special_course_issues |-> sp,
     overloaded_sections |-> o]
\* The scheduler is not part of the sources: a run ends with one of the four
\* solver outcomes and always returns its conflict lists.
RunOutcomes ==
    {[status |-> "Optimal", conflicts |-> ConflictCounts(0, 0, 0, 0)],
     [status |-> "Infeasible", conflicts |-> ConflictCounts(1, 0, 0, 0)],
     [status |-> "TimedOut", conflicts |-> ConflictCounts(0, 0, 1, 0)],
     [status |-> "FeasibleNotOptimal", conflicts |-> ConflictCounts(0, 0, 0, 6)]}

\* 35-40
Score(c) ==
    c.missing_courses * 1000 + c.teacher_conflicts * 800
    + c.special_course_issues * 600 + c.overloaded_sections * 100

\* 42-49
ResultOf(penalties, c) ==
    [penalties |-> penalties, score |-> Score(c),
     missing_courses |-> c.missing_courses, teacher_conflicts |-> c.teacher_conflicts,
     special_course_issues |-> c.special_course_issues,
     overloaded_sections |-> c.overloaded_sections]

MinScore(rs) ==
    CHOOSE v \in {rs[i].score : i \in DOMAIN rs} : \A i \in DOMAIN rs : v <= rs[i].score

\* Variants of IsBestSoFar: the comparison inverted, and '<=' for '<'.
IsWorstSoFar(score) == results = <<>> \/ score > MinScore(results)
IsBestOrEqualSoFar(score) == results = <<>> \/ score <= MinScore(results)
\* 52: not self.results or score < min(r['score'] for r in self.results)
IsBestSoFar(score) == results = <<>> \/ score < MinScore(results)

Metrics(result) ==
    [score |-> result.score,
     missing_courses |-> result.missing_courses, teacher_conflicts |-> result.teacher_conflicts,
     special_course_issues |-> result.special_course_issues,
     overloaded_sections |-> result.overloaded_sections]

\* 57-71: penalties.json, metrics.json and the schedules of this scheduler
save_best_result(result, run) ==
    [penalties |-> result.penalties, metrics |-> Metrics(result), schedules |-> run]

\* results_df.loc[results_df['score'].idxmin()]: the first row of least score
idxmin(rs) ==
    CHOOSE i \in DOMAIN rs :
        /\ rs[i].score = MinScore(rs)
        /\ \A j \in DOMAIN rs : rs[j].score = MinScore(rs) => i <= j

TuneInit ==
    /\ sections_info = <<>> /\ teacher_info = <<>> /\ teacher_unavailability = <<>>
    /\ student_info = <<>> /\ student_preference_info = <<>>
    /\ pc = "run_tuning"
    /\ exit_code = -1
    /\ valid_sections = <<>>
    /\ x = EmptyFun /\ y = EmptyFun /\ z = EmptyFun
    /\ period_conflicts = EmptyFun
    /\ science_prep_violation = EmptyFun
    /\ constraints = 0
    /\ solver_calls = 0
    /\ status = 0
    /\ dataframes = NoTables
    /\ files = NoTables
    /\ reports = 0
    /\ conflicts = NoConflicts
    /\ TunerIdle
    /\ periods_df = {} /\ courses_df = <<>> /\ teachers_df = <<>>
    /\ t_p = EmptyFun /\ teacher_schedule_df = {}
    /\ RestIdle

\* Variant of EvaluatePenalties: a run without solution ends the loop.
EvaluatePenaltiesOrAbort ==
    /\ pc = "run_tuning"
    /\ tune_i < Len(combinations)
    /\ \E o \in RunOutcomes :
          LET result == ResultOf(PenaltiesOf(combinations[tune_i + 1]), o.conflicts)
          IN IF o.status \in {"Infeasible", "TimedOut"}
             THEN /\ pc' = "aborted"
                  /\ UNCHANGED <<results, best_configuration, run_status, tune_i>>
             ELSE /\ best_configuration' =
                        IF IsBestSoFar(result.score)
                        THEN save_best_result(result, tune_i + 1)
                        ELSE best_configuration
                  /\ results' = Append(results, result)
                  /\ run_status' = Append(run_status, o.status)
                  /\ tune_i' = tune_i + 1
                  /\ UNCHANGED pc
    /\ UNCHANGED <<inputVars, exit_code, valid_sections, modelVars, solver_calls, status,
                   outputVars, tuning_summary>>
    /\ UNCHANGED <<firstVars, restVars>>

\* 85-88 with evaluate_penalties (29-55): one iteration of the loop
EvaluatePenalties ==
    /\ pc = "run_tuning"
    /\ tune_i < Len(combinations)
    /\ \E o \in RunOutcomes :
          LET result == ResultOf(PenaltiesOf(combinations[tune_i + 1]), o.conflicts)
          IN /\ best_configuration' =
                   IF IsBestSoFar(result.score)
                   THEN save_best_result(result, tune_i + 1)
                   ELSE best_configuration
             /\ results' = Append(results, result)
             /\ run_status' = Append(run_status, o.status)
    /\ tune_i' = tune_i + 1
    /\ UNCHANGED <<progVars, tuning_summary>>
    /\ UNCHANGED <<firstVars, restVars>>

\* 93-94 with summarize_results (115-132)
SummarizeResults ==
    /\ pc = "run_tuning"
    /\ tune_i = Len(combinations)
    /\ tuning_summary' = [best_penalties |-> results[idxmin(results)].penalties,
                          metrics |-> Metrics(results[idxmin(results)])]
    /\ pc' = "tuned"
    /\ UNCHANGED <<inputVars, exit_code, valid_sections, modelVars, solver_calls, status,
                   outputVars, results, best_configuration, run_status, tune_i>>
    /\ UNCHANGED <<firstVars, restVars>>

TuneNext == EvaluatePenalties \/ SummarizeResults

TuneSpec == TuneInit /\ [][TuneNext]_vars

\* run_tuning is one sequential loop: each iteration is eventually taken.
TuneFairSpec == TuneSpec /\ WF_vars(TuneNext)

(***************************************************************************)
(* FIrst_Attempt/Verison1.0.py: the teacher side of the model.  The inputs *)
(* have one course that no department rule names, no lab class and no      *)
(* student, so the constraints on x are the teacher constraints (113-186); *)
(* every further constraint of the script only removes solutions.          *)
(***************************************************************************)
MaxPeriods == 3          \* 'Period' ranges over 1..MaxPeriods
MaxCourseSections == 2   \* 'Sections' of the course ranges over 1..MaxCourseSections

\* Periods.csv: a non-empty set of (Day, Period) rows, no row twice
PeriodsTables == (SUBSET ({"Red", "Gold"} \X (1..MaxPeriods))) \ {{}}

\* Teachers.csv: T1 is special; it is qualified or not, and may have Red-1 free;
\* T2 is not special and can only teach in Red-1 and Red-2.
TeachersTables ==
    LET row(t, q, f, s) ==
            [TeacherID |-> t, QualifiedCourses |-> q, FreePeriods |-> f, SpecialStatus |-> s]
        late == {<<"Red", p>> : p \in 3..MaxPeriods} \cup {<<"Gold", p>> : p \in 1..MaxPeriods}
    IN { <<row("T1", {"Eng101"}, {}, TRUE)>>,
         <<row("T1", {"Eng101"}, {<<"Red", 1>>}, TRUE)>>,
         <<row("T1", {"Eng101"}, {}, TRUE), row("T2", {"Eng101"}, late, FALSE)>>,
         <<row("T1", {}, {}, TRUE)>> }

\* 14-15
days == {r[1] : r \in periods_df}
sorted_periods == LET P == {r[2] : r \in periods_df} IN SortedBy(P, [p \in P |-> p])

\* 25-38
special_teachers ==
    {teachers_df[i].TeacherID : i \in {j \in DOMAIN teachers_df : teachers_df[j].SpecialStatus}}

\* 48-55: (day, period, course, section, teacher) for the qualified teachers
x_keys ==
    UNION {UNION {{<<r[1], r[2], courses_df[c].CourseID, sec, teachers_df[i].TeacherID>> :
                        r \in periods_df, sec \in 1..courses_df[c].Sections} :
                    i \in {j \in DOMAIN teachers_df :
                              courses_df[c].CourseID \in teachers_df[j].QualifiedCourses}} :
            c \in DOMAIN courses_df}

\* lpSum of the x of one teacher in one (day, period)
ClassesAt(f, teacher, day, period) ==
    SumKeys(f, {k \in x_keys : k[5] = teacher /\ k[1] = day /\ k[2] = period})

\* Variant of ConsecutiveConstraint: no neighbour is required.
ConsecutiveNotRequired(tp, idx) == tp[idx] <= 1
\* 162-185: t_p[period] <= t_p[next], <= t_p[prev], or <= t_p[prev] + t_p[next]
ConsecutiveConstraint(tp, idx) ==
    IF idx = 1 THEN tp[idx] <= tp[idx + 1]
    ELSE IF idx = Len(tp) THEN tp[idx] <= tp[idx - 1]
    ELSE tp[idx] <= tp[idx - 1] + tp[idx + 1]

\* 113-186 for one teacher and one day; tp[i] is t_p[periods[i]], a binary variable
\* equal to the classes of the teacher in that period (149-159)
TeacherConstraints(f, teacher, day) ==
    LET tp == [i \in DOMAIN sorted_periods |-> ClassesAt(f, teacher, day, sorted_periods[i])]
        teacher_free_periods ==
            UNION {teachers_df[i].FreePeriods :
                      i \in {j \in DOMAIN teachers_df : teachers_df[j].TeacherID = teacher}}
    IN /\ \A r \in periods_df : r[1] = day => ClassesAt(f, teacher, day, r[2]) <= 1
       /\ \A fp \in teacher_free_periods :
             fp[1] = day => ClassesAt(f, teacher, day, fp[2]) = 0
       /\ teacher \in special_teachers =>
             /\ SumKeys(f, {k \in x_keys : k[5] = teacher /\ k[1] = day}) = 2
             /\ \A i \in DOMAIN tp : tp[i] \in 0..1
             /\ \A i \in DOMAIN tp : ConsecutiveConstraint(tp, i)

\* The assignments of x that satisfy the constraints: the constraints of one teacher
\* on one day involve only the x of that teacher and day.
FirstFeasible ==
    LET blocks == {teachers_df[i].TeacherID : i \in DOMAIN teachers_df} \X days
        rows == [b \in blocks |->
                    {f \in [{k \in x_keys : k[5] = b[1] /\ k[1] = b[2]} -> 0..1] :
                        TeacherConstraints(f, b[1], b[2])}]
    IN {[k \in x_keys |-> g[<<k[5], k[1]>>][k]] : g \in DepProd(blocks, rows)}

FirstInit ==
    /\ periods_df \in PeriodsTables
    /\ courses_df \in {<<[CourseID |-> "Eng101", Sections |-> n]>> : n \in 1..MaxCourseSections}
    /\ teachers_df \in TeachersTables
    /\ t_p = EmptyFun /\ teacher_schedule_df = {}
    /\ RestIdle
    /\ sections_info = <<>> /\ teacher_info = <<>> /\ teacher_unavailability = <<>>
    /\ student_info = <<>> /\ student_preference_info = <<>>
    /\ pc = "build_problem"
    /\ exit_code = -1
    /\ valid_sections = <<>>
    /\ x = EmptyFun /\ y = EmptyFun /\ z = EmptyFun
    /\ period_conflicts = EmptyFun
    /\ science_prep_violation = EmptyFun
    /\ constraints = 0
    /\ solver_calls = 0
    /\ status = 0
    /\ dataframes = NoTables
    /\ files = NoTables
    /\ reports = 0
    /\ conflicts = NoConflicts
    /\ TunerIdle

\* 47-298: periods[idx + 1] at 165 raises IndexError when there is one period
BuildProblem ==
    /\ pc = "build_problem"
    /\ x' = [k \in x_keys |-> None]
    /\ pc' = IF special_teachers # {} /\ Len(sorted_periods) = 1 THEN "raised"
             ELSE "solve_problem"
    /\ UNCHANGED <<inputVars, exit_code, valid_sections, y, z, period_conflicts,
                   science_prep_violation, constraints,
                   outputVars, tuneVars, periods_df, courses_df, teachers_df,
                   solver_calls, status, t_p, teacher_schedule_df>>
    /\ UNCHANGED restVars

\* 301: problem.solve(); without a feasible assignment the values the solver leaves
\* are not a solution (all unset, or all 0)
SolveProblem ==
    /\ pc = "solve_problem"
    /\ solver_calls' = solver_calls + 1
    /\ IF FirstFeasible # {}
       THEN /\ status' = 1
            /\ x' \in FirstFeasible
            /\ t_p' = [k \in special_teachers \X days \X Range(sorted_periods) |->
                          ClassesAt(x', k[1], k[2], k[3])]
       ELSE /\ status' = -1
            /\ x' \in {x, [k \in x_keys |-> 0]}
            /\ UNCHANGED t_p
    /\ pc' = "print_results"
    /\ UNCHANGED <<inputVars, exit_code, valid_sections, y, z, period_conflicts,
                   science_prep_violation, constraints,
                   outputVars, tuneVars, periods_df, courses_df, teachers_df,
                   teacher_schedule_df>>
    /\ UNCHANGED restVars

\* 303-325: the rows with varValue == 1 (as a set), whatever the status
PrintResults ==
    /\ pc = "print_results"
    /\ teacher_schedule_df' =
          {[Day |-> k[1], Period |-> k[2], Course |-> k[3], Section |-> k[4], Teacher |-> k[5]] :
              k \in {k \in x_keys : x[k] = 1}}
    /\ pc' = "done"
    /\ UNCHANGED <<inputVars, exit_code, valid_sections, y, z, period_conflicts,
                   science_prep_violation, constraints,
                   outputVars, tuneVars, periods_df, courses_df, teachers_df,
                   x, solver_calls, status, t_p>>
    /\ UNCHANGED restVars

FirstNext == BuildProblem \/ SolveProblem \/ PrintResults

FirstSpec == FirstInit /\ [][FirstNext]_vars

(***************************************************************************)
(* Properties.                                                             *)
(***************************************************************************)
\* The solver has returned an assignment: every constraint added to prob holds.
Accepted == solver_calls > 0 /\ ~ObjectiveIsNone

\* The top-level extraction (817-897) has run.
Extracted == Accepted /\ pc \in {"analyze", "final_check", "post_solution", "done", "exit"}

LegalPeriods(sec) ==
    Range(allowed_periods(CourseOf(sec))) \ Range(unavailable_periods(TeacherOf(sec)))

ScheduledPeriods(sec) == {p \in Range(periods) : <<sec, p>> \in DOMAIN z /\ z[<<sec, p>>] = 1}

MasterRows(table, sec) == {i \in DOMAIN table : table[i].SectionID = sec}

C2_TeacherExclusivity ==
    Accepted =>
        \A t \in TeachersAssigned : \A p \in Range(periods) :
            Cardinality({sec \in SectionsSet : TeacherOf(sec) = t /\ p \in ScheduledPeriods(sec)}) <= 1

\* C3: in every accepted solution, a student is enrolled in at most one section
\* scheduled in any one period.
C3_StudentExclusivity ==
    Accepted =>
        \A st \in Students : \A p \in Range(periods) :
            Cardinality({sec \in SectionsSet :
                /\ <<st, sec>> \in DOMAIN x /\ x[<<st, sec>>] = 1
                /\ p \in ScheduledPeriods(sec)}) <= 1

\* C4: in every accepted solution a section's enrollment is at most its seats
\* available, or the section has an overload slack variable whose value is
\* exactly enrollment minus seats.
C4_Capacity ==
    Accepted =>
        \A sec \in SectionsSet :
            \/ enrollment(sec) <= SeatsOf(sec)
            \/ /\ sec \in DOMAIN section_overload
               /\ section_overload[sec] = enrollment(sec) - SeatsOf(sec)

\* C5: in every accepted solution every Medical Career section is scheduled in
\* R1 or G1 and every Heroes Teach section in R2 or G2, in z and in the
\* extracted master schedule.
PinnedTo(sec, pin) ==
    /\ ScheduledPeriods(sec) # {}
    /\ ScheduledPeriods(sec) \subseteq pin
    /\ Extracted =>
          \A i \in MasterRows(dataframes.Master_Schedule, sec) :
              dataframes.Master_Schedule[i].Period \in pin

C5_PinCompliance ==
    Accepted =>
        \A sec \in SectionsSet :
            /\ CourseOf(sec) = "Medical Career" => PinnedTo(sec, {"R1", "G1"})
            /\ CourseOf(sec) = "Heroes Teach" => PinnedTo(sec, {"R2", "G2"})

C5_Witness ==
    /\ pc = "done" /\ status = 1
    /\ \E sec \in SectionsSet :
          CourseOf(sec) = "Medical Career" /\ ScheduledPeriods(sec) = {"G1"}

\* C6: in every accepted solution, for every student and every course the
\* student requested, at most one section of the course has x = 1, and
\* exactly one when the course has a section.
EnrolledSections(st, c) ==
    {sec \in SectionsSet : CourseOf(sec) = c /\ <<st, sec>> \in DOMAIN x /\ x[<<st, sec>>] = 1}

C6_OneSectionPerRequestedCourse ==
    Accepted =>
        \A st \in Students : \A c \in Range(requested_courses(st)) :
            /\ Cardinality(EnrolledSections(st, c)) <= 1
            /\ c \in CoursesWithSections => Cardinality(EnrolledSections(st, c)) = 1

C6_Witness ==
    /\ pc = "done" /\ status = 1
    /\ \E st \in Students : \E c \in Range(requested_courses(st)) :
          /\ c \in CoursesWithSections
          /\ Len(course_to_sections[c]) = 2
          /\ Cardinality(EnrolledSections(st, c)) = 1

\* C7: the score of the persisted best configuration never increases from one
\* evaluation to the next.
C7_MonotonicBest ==
    [][best_configuration # <<>> =>
          best_configuration'.metrics.score <= best_configuration.metrics.score]_vars

C7_Witness ==
    /\ Len(results) >= 2
    /\ best_configuration.schedules = 2
    /\ results[2].score < results[1].score

\* C8: after any prefix of the candidates, the persisted best configuration is
\* that of the first candidate that attains the least score so far.
C8_FirstMinimumKept ==
    results # <<>> =>
        \E i \in DOMAIN results :
            /\ \A j \in DOMAIN results : results[i].score <= results[j].score
            /\ \A j \in 1..(i - 1) : results[j].score > results[i].score
            /\ best_configuration.penalties = results[i].penalties
            /\ best_configuration.metrics = Metrics(results[i])
            /\ best_configuration.schedules = i

C8_Witness ==
    /\ Len(results) >= 3
    /\ results[2].score = results[3].score
    /\ results[2].score < results[1].score
    /\ Metrics(results[2]) # Metrics(results[3])
    /\ best_configuration.schedules = 2

\* C9: the two extractions of one run (817-897 and output_results) produce
\* the same four tables from the same solved assignment.
C9_IdempotentExtraction ==
    (pc = "done" /\ status = 1) => files = dataframes

\* C10 as stated: with a section without legal period, no variable and no
\* constraint is ever created and the solver is never called.
SomeSectionWithoutLegalPeriod == \E sec \in SectionsSet : LegalPeriods(sec) = {}

CapacityShortage == \E c \in CoursesWithSections : total_requests(c) > total_capacity(c)

C11_CapacityShortageHaltsBeforeSolve ==
    CapacityShortage => solver_calls = 0

\* C12: every run that reaches a solver outcome ends with the conflict
\* analysis run and its report produced, whatever the outcome (Optimal,
\* feasible, Infeasible, time-out without solution).
RunEnded == pc \in {"done", "exit"}

C12_ReportForEveryOutcome ==
    (RunEnded /\ solver_calls > 0) => reports >= 1

\* C13: a run whose solver stopped at the time limit with a solution (status
\* 0) ends with the same output tables as a run with status 1 ends with for
\* that assignment: the tables output_results writes.
C13_TimeLimitSolutionSameTables ==
    (pc = "done" /\ Accepted) =>
        files = [Master_Schedule |-> schedule_data,
                 Student_Assignments |-> assignments_data,
                 Teacher_Assignments |-> teacher_schedule,
                 Students_Unmet_Requests |-> unmet_requests]

UnknownRequests ==
    {r \in Students \X UNION {Range(requested_courses(st)) : st \in Students} :
        r[2] \in Range(requested_courses(r[1])) /\ r[2] \notin CoursesWithSections}

ListedUnmet(table, st) ==
    UNION {Range(table[i].UnmetRequests) : i \in {j \in DOMAIN table : table[j].StudentID = st}}

UnmetTableExact(table, sep) ==
    \A st \in Students :
        LET rows == {i \in DOMAIN table : table[i].StudentID = st}
            unmet == {c \in Range(requested_courses(st)) : EnrolledSections(st, c) = {}}
        IN  IF unmet = {} THEN rows = {}
            ELSE /\ Cardinality(rows) = 1
                 /\ \A i \in rows : Range(table[i].UnmetRequests) \ {sep} = unmet

\* C17: the unmet-requests table lists course c for student s iff s requested c and no
\* section of c has x[s, section] = 1; a student without such a course has no row. It
\* holds of the table of the first extraction and of the one output_results writes.
C17_UnmetRequestsExact ==
    /\ Extracted => UnmetTableExact(dataframes.Students_Unmet_Requests, ",")
    /\ (pc = "done" /\ status = 1) => UnmetTableExact(files.Students_Unmet_Requests, ";")

C17_Witness ==
    /\ pc = "done" /\ status = 1
    /\ \E st \in Students :
          /\ \E c \in Range(requested_courses(st)) : EnrolledSections(st, c) # {}
          /\ \E c \in Range(requested_courses(st)) : EnrolledSections(st, c) = {}
          /\ Len(files.Students_Unmet_Requests) = 1

\* C16: for a pinned course with exactly two sections, every accepted solution has
\* exactly one of the two sections in each of the two pinned periods (never both
\* sections in the same pinned period).
PinnedPair(c) == {sec \in SectionsSet : CourseOf(sec) = c}

C16_PinnedPairCoverage ==
    Accepted =>
        \A c \in Range(PinnedCourses) :
            Cardinality(PinnedPair(c)) = 2 =>
                \A p \in Range(PinOf(c)) :
                    Cardinality({sec \in PinnedPair(c) : p \in ScheduledPeriods(sec)}) = 1

C16_Witness ==
    /\ pc = "done" /\ status = 1
    /\ \E c \in Range(PinnedCourses) :
          /\ Cardinality(PinnedPair(c)) = 2
          /\ Cardinality({TeacherOf(sec) : sec \in PinnedPair(c)}) = 2
          /\ \A p \in Range(PinOf(c)) :
                \E sec \in PinnedPair(c) : ScheduledPeriods(sec) = {p}

\* C19: in every accepted solution y[student, section, p] = 1 exactly when
\* x[student, section] = 1 and z[section, p] = 1.
C19_YIsXAndZ ==
    Accepted =>
        \A k \in DOMAIN y :
            y[k] = 1 <=> (x[<<k[1], k[2]>>] = 1 /\ z[<<k[2], k[3]>>] = 1)

C19_Witness ==
    /\ pc = "done" /\ status = 1
    /\ \E k \in DOMAIN y :
          /\ y[k] = 1 /\ x[<<k[1], k[2]>>] = 1 /\ z[<<k[2], k[3]>>] = 1
          /\ \E j \in DOMAIN y : j[1] = k[1] /\ j[2] = k[2] /\ j[3] # k[3] /\ y[j] = 0
    /\ \E k \in DOMAIN x : x[k] = 0

\* C18: once valid_sections is built, the periods it holds for a section are the
\* allowed periods of the section's course minus every period listed as unavailable
\* for the section's teacher in any row of the teacher-unavailability table.
ListedUnavailable(t) ==
    UNION {Range(teacher_unavailability[i].UnavailablePeriods) :
              i \in {j \in DOMAIN teacher_unavailability :
                        /\ teacher_unavailability[j].TeacherID = t
                        /\ teacher_unavailability[j].UnavailablePeriods # NaN}}

C18_ValidPeriodsMinusEveryRow ==
    pc \notin {"early_checks", "preprocess", "exit"} =>
        \A sec \in SectionsSet :
            ValidPeriodSet(sec) =
                Range(allowed_periods(CourseOf(sec))) \ ListedUnavailable(TeacherOf(sec))

\* C20: in every accepted solution of the Verison1.0.py model every special teacher
\* teaches, on every day, exactly two periods, and the two are consecutive slots of
\* that day; the printed teacher schedule shows the same.
TaughtPeriods(teacher, day) ==
    {k[2] : k \in {k \in DOMAIN x : k[5] = teacher /\ k[1] = day /\ x[k] = 1}}

DaySlots(day) == {r[2] : r \in {r \in periods_df : r[1] = day}}

C20_SpecialTeacherTwoConsecutive ==
    (pc \in {"print_results", "done"} /\ status = 1) =>
        \A t \in special_teachers : \A d \in days :
            /\ Cardinality({k \in DOMAIN x : k[5] = t /\ k[1] = d /\ x[k] = 1}) = 2
            /\ Cardinality(TaughtPeriods(t, d)) = 2
            /\ \A a, b \in TaughtPeriods(t, d) :
                  a < b => ~ \E c \in DaySlots(d) : a < c /\ c < b
            /\ pc = "done" =>
                  {r.Period : r \in {r \in teacher_schedule_df : r.Teacher = t /\ r.Day = d}}
                      = TaughtPeriods(t, d)

C20_Witness ==
    /\ pc = "done" /\ status = 1
    /\ days = {"Red", "Gold"}
    /\ DaySlots("Red") = 1..3 /\ DaySlots("Gold") = 1..2
    /\ TaughtPeriods("T1", "Red") = {2, 3}
    /\ TaughtPeriods("T1", "Gold") = {1, 2}
    /\ "T1" \in special_teachers
    /\ Cardinality(TaughtPeriods("T2", "Red")) = 1

\* C21: a Medical Career course with a single section whose teacher is available in
\* R1 or G1, and with nothing else to conflict with (it is the only section and it
\* has a seat for every request), has an accepted solution.
SingleMedicalCareerSection ==
    /\ Len(sections_info) = 1
    /\ sections_info[1].CourseID = "Medical Career"
    /\ LegalPeriods(sections_info[1].SectionID) # {}
    /\ total_requests("Medical Career") <= total_capacity("Medical Career")

C21_SinglePinnedSectionFeasible ==
    (pc = "solve" /\ SingleMedicalCareerSection) => Feasible # {}

\* Consecutive slots of one day track.
SameTrackConsecutive(p1, p2) ==
    <<p1, p2>> \in {<<"R1", "R2">>, <<"R2", "R3">>, <<"R3", "R4">>,
                    <<"G1", "G2">>, <<"G2", "G3">>, <<"G3", "G4">>}

\* C22: once the model is built, a science-prep violation variable exists for two
\* science sections and a pair of periods (both sections having their z variable)
\* if and only if the two periods are consecutive slots of the same day track.
C22_SciencePrepPairsSameTrack ==
    pc \in {"check_feasibility", "solve", "status", "extract", "analyze", "done"} =>
        \A s1, s2 \in SectionsSet : \A p1, p2 \in Range(periods) :
            (/\ CourseOf(s1) \in ScienceCourseIDs /\ CourseOf(s2) \in ScienceCourseIDs
             /\ CourseRank[CourseOf(s1)] < CourseRank[CourseOf(s2)]
             /\ <<s1, p1>> \in DOMAIN z /\ <<s2, p2>> \in DOMAIN z) =>
                (<<s1, s2, p1, p2>> \in DOMAIN science_prep_violation
                    <=> SameTrackConsecutive(p1, p2))

\* C23: in an accepted solution a science-prep violation variable is positive only
\* when its two sections are taught by the same teacher.
C23_SciencePrepSameTeacher ==
    Accepted =>
        \A k \in DOMAIN science_prep_violation :
            science_prep_violation[k] > 0 => TeacherOf(k[1]) = TeacherOf(k[2])

\* C26: the report of analyze_conflicts has a section-overload entry for a section
\* if and only if the section's enrollment exceeds its seats, and the recorded
\* overload is enrollment minus seats, for every capacity, 0 included.
C26_OverloadRecordExact ==
    reports > 0 =>
        \A sec \in SectionsSet :
            LET rows == {i \in DOMAIN conflicts.course_loads :
                            conflicts.course_loads[i].section = sec}
            IN /\ rows # {} <=> enrollment(sec) > SeatsOf(sec)
               /\ \A i \in rows :
                     conflicts.course_loads[i].overload = enrollment(sec) - SeatsOf(sec)

\* The i-th weight vector of the Cartesian product of the two ranges, the
\* second range varying fastest.
LexVector(i) ==
    LET n2 == Len(values[2])
    IN [k \in {keys[1], keys[2]} |->
            IF k = keys[1] THEN values[1][((i - 1) \div n2) + 1]
            ELSE values[2][((i - 1) % n2) + 1]]

OrToolsFeasible ==
    LET OrZConstraints(zz) ==
            /\ \A sec \in SectionsSet :
                  ValidPeriodSet(sec) # {} =>
                      SumKeys(zz, {<<sec, p>> : p \in ValidPeriodSet(sec)}) = 1
            /\ \A t \in Range(teacher_info) : \A p \in Range(periods) :
                  SumKeys(zz, {<<sec, p>> : sec \in Range(teacher_sections(t))}) <= 1
        OrZSolutions ==
            {zz \in {[k \in ZKeys |-> g[k[1]][k[2]]] : g \in DepProd(SectionsWithPeriods, ZRows)} :
                OrZConstraints(zz)}
        OrConflict(yy) ==
            \A k \in ConflictKeys : \E conflict \in 0..1 :
                StudentPeriodLoad(yy, k[1], k[2]) <= 1 + conflict
    IN UNION {UNION {{[z |-> zz, x |-> xx, y |-> yy] :
                          yy \in {yy \in YSolutions(xx, zz) : OrConflict(yy)}} :
                     xx \in XSolutions(zz)} :
              zz \in OrZSolutions}

\* C29: on the same input tables the PuLP model and the CP-SAT model accept
\* the same (section-to-period, student-to-section) assignments.
C29_SameFeasibleAssignments ==
    pc = "solve" =>
        {[z |-> f.z, x |-> f.x] : f \in Feasible} = {[z |-> f.z, x |-> f.x] : f \in OrToolsFeasible}

(***************************************************************************)
(* main/cp.py: solve_schedule.  The section and unavailability tables are  *)
(* those of the loader; the CP-SAT model has one Boolean per (section,     *)
(* period of its domain) and one constraint per section with a non-empty   *)
(* domain.                                                                 *)
(***************************************************************************)
\* The program and the first attempt are not running.
ProgramOutputIdle ==
    /\ exit_code = -1
    /\ valid_sections = <<>>
    /\ x = EmptyFun /\ y = EmptyFun /\ z = EmptyFun
    /\ period_conflicts = EmptyFun
    /\ science_prep_violation = EmptyFun
    /\ constraints = 0
    /\ solver_calls = 0
    /\ status = 0
    /\ dataframes = NoTables
    /\ files = NoTables
    /\ reports = 0
    /\ conflicts = NoConflicts
    /\ periods_df = {} /\ courses_df = <<>> /\ teachers_df = <<>>
    /\ t_p = EmptyFun /\ teacher_schedule_df = {}

\* 78-82: teacher_unavail[t_id] = unavailable, the last row of a teacher wins
teacher_unavail ==
    [t \in {teacher_unavailability[i].TeacherID : i \in DOMAIN teacher_unavailability} |->
        LET last == CHOOSE i \in DOMAIN teacher_unavailability :
                        /\ teacher_unavailability[i].TeacherID = t
                        /\ \A j \in DOMAIN teacher_unavailability :
                              teacher_unavailability[j].TeacherID = t => j <= i
        IN Range(teacher_unavailability[last].UnavailablePeriods)]

CpInit ==
    /\ sections_info \in {tab \in SectionTables :
            \A i \in DOMAIN tab : tab[i].CourseID = "Math" /\ tab[i].Seats = MaxSeats}
    /\ teacher_unavailability \in
            UnavailabilityTables
            \cup {<<UnavailabilityRow("T1", periods), UnavailabilityRow("T2", FreeR2)>>,
                  <<UnavailabilityRow("T2", FreeR1G1G2)>>}
    /\ teacher_info = <<>> /\ student_info = <<>> /\ student_preference_info = <<>>
    /\ pc = "cp_domains"
    /\ ProgramOutputIdle
    /\ TunerIdle
    /\ RestIdle

\* 90-95: valid_periods = set(periods_df['period_name']) - unavailable
CpBuildDomains ==
    /\ pc = "cp_domains"
    /\ section_period_domain' =
          [sec \in SectionsSet |->
              Range(periods) \ (IF TeacherOf(sec) \in DOMAIN teacher_unavail
                                THEN teacher_unavail[TeacherOf(sec)] ELSE {})]
    /\ pc' = "cp_build_model"
    /\ UNCHANGED <<inputVars, exit_code, valid_sections, modelVars, solver_calls, status,
                   outputVars, tuneVars, firstVars>>
    /\ UNCHANGED <<section_period_vars, cp_status, process_log, ortVars, workers, modified_data>>

\* 111-144: the variables; a section with an empty domain gets a warning in
\* debug.log and no constraint
CpBuildModel ==
    /\ pc = "cp_build_model"
    /\ section_period_vars' =
          [k \in {k \in SectionsSet \X Range(periods) : k[2] \in section_period_domain[k[1]]} |->
              None]
    /\ pc' = "cp_solve"
    /\ UNCHANGED <<inputVars, exit_code, valid_sections, modelVars, solver_calls, status,
                   outputVars, tuneVars, firstVars>>
    /\ UNCHANGED <<section_period_domain, cp_status, process_log, ortVars, workers, modified_data>>

\* 132: sum(section_period_vars[(sec_id, p)] for p in valid_p) == 1, if valid_p
CpConstraints(v) ==
    \A sec \in DOMAIN section_period_domain :
        section_period_domain[sec] # {} =>
            SumOver(v, {<<sec, p>> : p \in section_period_domain[sec]}) = 1

\* 150-160: solver.Solve(model); the model has no objective and no time limit
CpSolve ==
    /\ pc = "cp_solve"
    /\ \E v \in [DOMAIN section_period_vars -> 0..1] :
          /\ CpConstraints(v)
          /\ section_period_vars' = v
    /\ cp_status' = "OPTIMAL"
    /\ pc' = "cp_results"
    /\ UNCHANGED <<inputVars, exit_code, valid_sections, modelVars, solver_calls, status,
                   outputVars, tuneVars, firstVars>>
    /\ UNCHANGED <<section_period_domain, process_log, ortVars, workers, modified_data>>

\* 164-173
CpResults ==
    /\ pc = "cp_results"
    /\ process_log' =
          IF cp_status \in {"FEASIBLE", "OPTIMAL"}
          THEN {<<"Feasible solution found!">>}
               \cup {<<"[RESULT]", k[1], k[2]>> :
                        k \in {k \in DOMAIN section_period_vars : section_period_vars[k] = 1}}
          ELSE IF cp_status = "INFEASIBLE"
               THEN {<<"[ERROR] No feasible solution found (infeasible).">>}
               ELSE {<<"[ERROR] No solution found within the search limit.">>}
    /\ pc' = "done"
    /\ UNCHANGED <<inputVars, exit_code, valid_sections, modelVars, solver_calls, status,
                   outputVars, tuneVars, firstVars>>
    /\ UNCHANGED <<section_period_domain, section_period_vars, cp_status, ortVars, workers,
                   modified_data>>

CpNext == CpBuildDomains \/ CpBuildModel \/ CpSolve \/ CpResults

CpSpec == CpInit /\ [][CpNext]_vars

\* C25: solve_schedule never reports 'Feasible solution found' for an input in
\* which some section receives no period.
C25_NoFeasibleReportWithUnscheduledSection ==
    <<"Feasible solution found!">> \in process_log =>
        \A sec \in SectionsSet :
            \E p \in Range(periods) : <<"[RESULT]", sec, p>> \in process_log

(***************************************************************************)
(* main/program OR-TOOLS.py: the three soft constraints of the CP-SAT      *)
(* model under a fixed assignment of x, y and z.  soft_lhs holds the value *)
(* of each left-hand side: the SPED students assigned to one section, one  *)
(* student's sections in one period, the Sports Med sections in one period.*)
(***************************************************************************)
MaxExcess == 2         \* largest excess over a cap among the assignments tried

\* 431, 493, 538: the right-hand sides without the slack
SoftCaps == [sped_overload |-> SpedCap, period_conflicts |-> 1, sports_med_violation |-> 1]

\* 424, 488, 535: model.NewIntVar(0, 1, ...)
OrSlackDomain == 0..1

OrSoftInit ==
    /\ soft_lhs \in [sped_overload : 0..(SpedCap + MaxExcess),
                     period_conflicts : 0..(1 + MaxExcess),
                     sports_med_violation : 0..(1 + MaxExcess)]
    /\ diagnostic_vars = EmptyFun
    /\ or_status = "UNKNOWN"
    /\ sections_info = <<>> /\ teacher_info = <<>> /\ teacher_unavailability = <<>>
    /\ student_info = <<>> /\ student_preference_info = <<>>
    /\ pc = "or_solve"
    /\ ProgramOutputIdle
    /\ TunerIdle
    /\ CpIdle
    /\ workers = EmptyFun
    /\ modified_data = EmptyFun

\* 656 on the constraints of 427-432, 490-493, 537-538: lhs <= cap + slack, each
\* slack with coefficient < 0 in the maximised objective
OrSolveSoft ==
    /\ pc = "or_solve"
    /\ LET slacks == {d \in [DOMAIN SoftCaps -> OrSlackDomain] :
                         \A c \in DOMAIN SoftCaps : soft_lhs[c] <= SoftCaps[c] + d[c]}
       IN IF slacks = {}
          THEN /\ or_status' = "INFEASIBLE"
               /\ UNCHANGED diagnostic_vars
          ELSE /\ or_status' = "OPTIMAL"
               /\ diagnostic_vars' \in
                     {d \in slacks : \A e \in slacks : \A c \in DOMAIN SoftCaps : d[c] <= e[c]}
    /\ pc' = "done"
    /\ UNCHANGED <<inputVars, exit_code, valid_sections, modelVars, solver_calls, status,
                   outputVars, tuneVars, firstVars>>
    /\ UNCHANGED <<cpVars, soft_lhs, workers, modified_data>>

OrSoftSpec == OrSoftInit /\ [][OrSolveSoft]_vars

\* C24: in the OR-Tools model an assignment with any excess k >= 1 over a cap
\* (SPED students of a section over 12, a student's sections in one period,
\* Sports Med sections in one period) remains feasible, and the slack variable
\* takes the value of the excess.
C24_SoftForAnyExcess ==
    pc = "done" =>
        /\ or_status = "OPTIMAL"
        /\ \A c \in DOMAIN SoftCaps :
              diagnostic_vars[c] = Max(0, soft_lhs[c] - SoftCaps[c])

(***************************************************************************)
(* Tune/penalty_tuning.py with two workers on one PenaltyTuner: worker w   *)
(* calls evaluate_penalties for the w-th combination and appends what it   *)
(* returns.  The method takes no lock, so the workers interleave between   *)
(* its statements.                                                         *)
(***************************************************************************)
NumWorkers == 2

WorkerInit ==
    /\ workers = [w \in 1..NumWorkers |-> [pc |-> "run", result |-> <<>>]]
    /\ sections_info = <<>> /\ teacher_info = <<>> /\ teacher_unavailability = <<>>
    /\ student_info = <<>> /\ student_preference_info = <<>>
    /\ pc = "workers"
    /\ ProgramOutputIdle
    /\ TunerIdle
    /\ CpIdle
    /\ OrToolsIdle
    /\ modified_data = EmptyFun

WorkerKept ==
    <<inputVars, pc, exit_code, valid_sections, modelVars, solver_calls, status, outputVars,
      tuning_summary, tune_i, firstVars, cpVars, ortVars, modified_data>>

\* 31-49: scheduler.run() and the result dict
WorkerRun(w) ==
    /\ workers[w].pc = "run"
    /\ \E o \in RunOutcomes :
          /\ workers' = [workers EXCEPT ![w] =
                [pc |-> "compare",
                 result |-> ResultOf(PenaltiesOf(combinations[w]), o.conflicts)]]
          /\ run_status' = Append(run_status, o.status)
    /\ UNCHANGED <<results, best_configuration>>
    /\ UNCHANGED WorkerKept

\* 52: if not self.results or score < min(r['score'] for r in self.results)
WorkerCompare(w) ==
    /\ workers[w].pc = "compare"
    /\ workers' = [workers EXCEPT ![w].pc =
            IF IsBestSoFar(workers[w].result.score) THEN "persist" ELSE "return"]
    /\ UNCHANGED <<results, best_configuration, run_status>>
    /\ UNCHANGED WorkerKept

\* 53: self.save_best_result(result, scheduler)
WorkerPersist(w) ==
    /\ workers[w].pc = "persist"
    /\ best_configuration' = save_best_result(workers[w].result, w)
    /\ workers' = [workers EXCEPT ![w].pc = "return"]
    /\ UNCHANGED <<results, run_status>>
    /\ UNCHANGED WorkerKept

\* 55, 87: return result; self.results.append(result)
WorkerReturn(w) ==
    /\ workers[w].pc = "return"
    /\ results' = Append(results, workers[w].result)
    /\ workers' = [workers EXCEPT ![w].pc = "done"]
    /\ UNCHANGED <<best_configuration, run_status>>
    /\ UNCHANGED WorkerKept

WorkerNext ==
    \E w \in 1..NumWorkers :
        WorkerRun(w) \/ WorkerCompare(w) \/ WorkerPersist(w) \/ WorkerReturn(w)

WorkerSpec == WorkerInit /\ [][WorkerNext]_vars

\* C27: with two workers on the same PenaltyTuner the persisted best
\* configuration is never that of a candidate whose score is higher than the
\* score of a candidate whose evaluation has already completed.
C27_PersistedBestNotWorseThanCompleted ==
    (pc = "workers" /\ best_configuration # <<>>) =>
        \A w \in DOMAIN workers :
            workers[w].pc = "done" =>
                best_configuration.metrics.score <= workers[w].result.score

(***************************************************************************)
(* schedule_optimizer.py: UtilizationOptimizer.modify_data on the tables   *)
(* 'sections', 'student_assignments' and 'teacher_assignments'.  A call    *)
(* whose primary or secondary section is missing raises at .iloc[0] and    *)
(* returns nothing.                                                        *)
(***************************************************************************)
max_teacher_sections == 6
max_section_size == 40

OptSectionIDs == {modified_data.sections[i].SectionID : i \in DOMAIN modified_data.sections}
\* df[df['Section ID'] != section_id]
WithoutSection(df, section_id) == SelectSeq(df, LAMBDA r : r.SectionID # section_id)
OptEnrollment(section_id) ==
    Len(SelectSeq(modified_data.student_assignments, LAMBDA r : r.SectionID = section_id))
OptRow(section_id) ==
    SelectSeq(modified_data.sections, LAMBDA r : r.SectionID = section_id)[1]

OptKept ==
    <<inputVars, pc, exit_code, valid_sections, modelVars, solver_calls, status, outputVars,
      tuneVars, firstVars, cpVars, ortVars, workers>>

\* The section identifiers of the input table, the ones a decision names.
InputSectionIDs == {"S1", "S2"}

OptInit ==
    /\ modified_data \in
          {[sections |-> <<[SectionID |-> "S1", TeacherAssigned |-> t1, Seats |-> MaxSeats],
                           [SectionID |-> "S2", TeacherAssigned |-> t2, Seats |-> MaxSeats]>>,
            student_assignments |->
                [i \in 1..3 |-> [StudentID |-> StudentIDs[i], SectionID |-> f[i]]],
            teacher_assignments |-> <<[TeacherID |-> t1, SectionID |-> "S1"],
                                      [TeacherID |-> t2, SectionID |-> "S2"]>>] :
                t1 \in TeacherIDs, t2 \in TeacherIDs, f \in [1..3 -> InputSectionIDs]}
    /\ sections_info = <<>> /\ teacher_info = <<>> /\ teacher_unavailability = <<>>
    /\ student_info = <<>> /\ student_preference_info = <<>>
    /\ pc = "modify_data"
    /\ ProgramOutputIdle
    /\ TunerIdle
    /\ CpIdle
    /\ OrToolsIdle
    /\ workers = EmptyFun

\* 506-514: action 'remove'
OptRemove(section_id) ==
    /\ pc = "modify_data"
    /\ section_id \in OptSectionIDs
    /\ modified_data' =
          [modified_data EXCEPT !.sections = WithoutSection(@, section_id),
                                !.teacher_assignments = WithoutSection(@, section_id)]
    /\ UNCHANGED OptKept

\* 479-504, 516-547: action 'merge'
OptMerge(section1, section2) ==
    /\ pc = "modify_data"
    /\ section1 \in OptSectionIDs /\ section2 \in OptSectionIDs /\ section1 # section2
    /\ LET teacher1 == OptRow(section1).TeacherAssigned
           teacher_load == Len(SelectSeq(modified_data.teacher_assignments,
                                         LAMBDA r : r.TeacherID = teacher1))
           merged_capacity == OptRow(section1).Seats + OptRow(section2).Seats
       IN modified_data' =
             IF \/ teacher_load >= max_teacher_sections
                \/ OptEnrollment(section1) + OptEnrollment(section2) > max_section_size
             THEN modified_data
             ELSE [modified_data EXCEPT
                      !.sections =
                          WithoutSection(
                              [i \in DOMAIN @ |->
                                  IF @[i].SectionID = section1
                                  THEN [@[i] EXCEPT !.Seats = merged_capacity] ELSE @[i]],
                              section2),
                      !.student_assignments =
                          [i \in DOMAIN @ |->
                              IF @[i].SectionID = section2
                              THEN [@[i] EXCEPT !.SectionID = section1] ELSE @[i]]]
    /\ UNCHANGED OptKept

\* 549-599: action 'split'; the test of 597 returns the same modified_data
OptSplit(section_id) ==
    /\ pc = "modify_data"
    /\ section_id \in OptSectionIDs \cap InputSectionIDs
    /\ LET original_section == OptRow(section_id)
           section_a == [original_section EXCEPT !.SectionID = section_id \o "_A",
                                                 !.Seats = original_section.Seats \div 2]
           section_b == [original_section EXCEPT !.SectionID = section_id \o "_B",
                                                 !.Seats = original_section.Seats \div 2]
           students == SelectSeq(modified_data.student_assignments,
                                 LAMBDA r : r.SectionID = section_id)
           half_point == Len(students) \div 2
       IN modified_data' =
             [modified_data EXCEPT
                 !.sections = WithoutSection(@, section_id) \o <<section_a, section_b>>,
                 !.student_assignments =
                     WithoutSection(@, section_id)
                     \o [i \in DOMAIN students |->
                            [students[i] EXCEPT !.SectionID =
                                IF i <= half_point THEN section_id \o "_A"
                                ELSE section_id \o "_B"]]]
    /\ UNCHANGED OptKept

OptNext ==
    \/ \E section_id \in OptSectionIDs : OptRemove(section_id)
    \/ \E section1, section2 \in OptSectionIDs : OptMerge(section1, section2)
    \/ \E section_id \in InputSectionIDs : OptSplit(section_id)

OptSpec == OptInit /\ [][OptNext]_vars

\* C30: after any sequence of modify_data actions on referentially consistent
\* data, every row of student_assignments and of teacher_assignments refers
\* to a Section ID that is present in sections.
C30_AssignmentsReferToSections ==
    pc = "modify_data" =>
        /\ \A i \in DOMAIN modified_data.student_assignments :
              modified_data.student_assignments[i].SectionID \in OptSectionIDs
        /\ \A i \in DOMAIN modified_data.teacher_assignments :
              modified_data.teacher_assignments[i].SectionID \in OptSectionIDs

====
